---------------------------- MODULE Spec2Model ----------------------------
(***************************************************************************)
(* Model of jimmy-v5:                                                      *)
(*  - the crawl worker (src/worker.py): the lease / execute / heartbeat /  *)
(*    report loop of CrawlerWorker and the pure retry classification       *)
(*    _is_retryable_error;                                                 *)
(*  - the partition resolver (spiders/base.py): build_requests_from_task   *)
(*    and its handlers, with the session keys of parse_listing;            *)
(*  - the URL normalizer (normalize_url of the three portal spiders),      *)
(*    computed character by character;                                     *)
(*  - the discovery collector (parse_for_links / parse_discovery of the    *)
(*    discovery spiders and their store routines);                         *)
(*  - the error context execute_task attaches to a non-zero exit.          *)
(*                                                                         *)
(* The worker is one asyncio event loop.  The main coroutine (run) and the *)
(* heartbeat task interleave only at await points, so every action below   *)
(* is the code between two awaits.  Python >= 3.8 is assumed:              *)
(* asyncio.CancelledError is a BaseException, so "except Exception" does   *)
(* not swallow a cancellation.                                             *)
(*                                                                         *)
(* Time is counted in ticks.  Timers (the heartbeat sleep, the wait_for    *)
(* timeout) are urgent: time does not pass a timer that is due.            *)
(*                                                                         *)
(* The components share one variable vector; each has its own              *)
(* specification (Spec / LiveSpec, RetrySpec, ResolveSpec, NormSpec,       *)
(* CollectSpec, ContextSpec) in which the others stay idle.                *)
(***************************************************************************)
EXTENDS Integers, Sequences, FiniteSets, TLC

\* ------------------------------------------------------------------ bounds
\* Largest heartbeat_interval (in ticks) a lease response carries.
MaxInterval == 2
\* The hard execution timeout (7200 s in the source), in ticks.
TimeoutTicks == 3
\* Length of the dashboard's lease window, in ticks.
LeaseWindow == 2
\* The per-task heartbeat counter saturates here ("MaxHb or more").
MaxHb == 2
\* Longest error code of the exhaustive part of the classification inputs.
MaxCodeLen == 3
\* Distinct task ids handed out by the dashboard.
MaxTaskId == 2

\* The elapsed-time counter saturates above every interval.
ElapsedCap == MaxInterval + 1

Min(a, b) == IF a < b THEN a ELSE b
Max(a, b) == IF a > b THEN a ELSE b

\* --------------------------------------------------------------- variables
VARIABLES
    runIdFilter,   \* self.run_id_filter is set (dedicated worker)
    running,       \* self.running
    interrupted,   \* a KeyboardInterrupt ended the loop
    pc,            \* position of run(): loop, leasing, pollSleep, executing,
                   \*   awaitHb, reporting, backoff, stopped
    lastLease,     \* what this iteration's lease request returned
    leased,        \* this iteration's lease returned a task
    task,          \* the leased task's heartbeat_interval
    ex,            \* position of execute_task
    portalStatus,  \* result of GET /api/portals/{portal_id}: none, name, noname, null, error
    spider,        \* where the crawl routine name came from
    outcome,       \* what execute_task returned
    returncode,    \* process.returncode on normal exit ({} if none)
    proc,          \* the crawl process: none, alive, dead
    killSent,      \* process.kill() has been called
    hb,            \* state of the heartbeat task
    hbTaskId,      \* the task_id the heartbeat task posts to (0: no heartbeat task)
    hbTimer,       \* ticks left of the heartbeat's asyncio.sleep
    hbStatus,      \* result of the last heartbeat request
    hbFailed,      \* some heartbeat request of this task failed
    hbSent,        \* heartbeat requests sent for this task (saturating)
    elapsed,       \* ticks since the heartbeat task started (saturating)
    timeLeft,      \* ticks left of asyncio.wait_for(..., timeout=7200)
    leaseLeft,     \* ticks until lease_expires_at
    completeSent,  \* complete requests sent for this task
    failSent,      \* fail requests sent for this task
    failRetryable, \* the retryable flag of the fail request sent ({} if none)
    exc,           \* exception raised in this iteration: none, lease, loop, report
    slept,         \* sleep taken in this iteration: none, poll, backoff
    errorCode,     \* input of _is_retryable_error (a sequence of characters)
    retryable,     \* its result
    retryPc,       \* idle, input, classified
    payload,       \* the task payload given to build_requests_from_task
    hasListing,    \* the portal defines parse_listing
    rpc,           \* the generator: idle, start, loop, done, raised
    cursor,        \* the next value of the handler's loop
    limit,         \* the last value of the handler's loop
    descs,         \* the descriptors yielded so far, in order
    rerrors,       \* resolution errors logged
    inflight,      \* requests scheduled and not answered yet
    absorbed,      \* fetch failures handled so far
    portal,        \* the spider whose normalize_url is called
    input,         \* the URL given to normalize_url, in parts
    canonicalUrl,  \* normalize_url(input)
    again,         \* normalize_url(canonical)
    other,         \* a second URL, related to input
    otherCanonical,\* normalize_url(other)
    relation,      \* how other relates to input: case, stripped, permuted
    npc,           \* idle, input, normalized, twice, compared
    cportal,       \* the spider whose discovery callback runs
    unitPages,     \* the unit's listing pages, each the set of links on it
    listingPage,   \* the page requested or being parsed
    cpc,           \* idle, fetching, complete, failed, raised
    discovered,    \* the (url, metadata) pairs found in the unit so far
    yielded,       \* the pairs yielded to the engine as items
    uploads,       \* the upload requests sent, each with its result
    storeErrors,   \* upload failures logged
    logLines,      \* the task's log file as readlines() returns it
    logReadable,   \* open() and readlines() on the log file succeed
    errorContext,  \* error_context[:500], the text sent with the failure
    ctxOutcome,    \* what execute_task returns for the non-zero exit
    ctxPc          \* idle, exited, read, returned

workerVars == <<runIdFilter, running, interrupted, pc, lastLease, leased, task,
                ex, portalStatus, spider, outcome, returncode, proc, killSent, hb,
                hbTaskId, hbTimer,
                hbStatus, hbFailed, hbSent, elapsed, timeLeft, leaseLeft,
                completeSent, failSent, failRetryable, exc, slept>>
retryVars == <<errorCode, retryable, retryPc>>
resolveVars == <<payload, hasListing, rpc, cursor, limit, descs, rerrors,
                 inflight, absorbed>>
normVars == <<portal, input, canonicalUrl, again, other, otherCanonical,
              relation, npc>>
collectVars == <<cportal, unitPages, listingPage, cpc, discovered, yielded,
                 uploads, storeErrors>>
contextVars == <<logLines, logReadable, errorContext, ctxOutcome, ctxPc>>
vars == <<workerVars, retryVars, resolveVars, normVars, collectVars, contextVars>>

\* What the actions of one component leave alone.
restOfWorker == <<retryVars, resolveVars, normVars, collectVars, contextVars>>
restOfRetry == <<workerVars, resolveVars, normVars, collectVars, contextVars>>
restOfResolve == <<workerVars, retryVars, normVars, collectVars, contextVars>>
restOfNorm == <<workerVars, retryVars, resolveVars, collectVars, contextVars>>
restOfCollect == <<workerVars, retryVars, resolveVars, normVars, contextVars>>
restOfContext == <<workerVars, retryVars, resolveVars, normVars, collectVars>>

\* ------------------------------------------------------- retry classification
Upper == <<"A","B","C","D","E","F","G","H","I","J","K","L","M",
           "N","O","P","Q","R","S","T","U","V","W","X","Y","Z">>
Lower == <<"a","b","c","d","e","f","g","h","i","j","k","l","m",
           "n","o","p","q","r","s","t","u","v","w","x","y","z">>

\* str.lower() on one character.
LowerChar(c) ==
    IF \E i \in 1..Len(Upper) : Upper[i] = c
    THEN Lower[CHOOSE i \in 1..Len(Upper) : Upper[i] = c]
    ELSE c

\* str.lower()
LowerStr(s) == [i \in 1..Len(s) |-> LowerChar(s[i])]

\* The set retryable_codes, each code a sequence of characters.
RetryableCodes ==
    { <<"t","i","m","e","o","u","t">>,
      <<"c","o","n","n","e","c","t","i","o","n","_","r","e","s","e","t">>,
      <<"d","n","s","_","e","r","r","o","r">>,
      <<"4","2","9">>, <<"5","0","0">>, <<"5","0","2">>, <<"5","0","3">>,
      <<"5","0","4">>,
      <<"n","e","t","w","o","r","k","_","e","r","r","o","r">> }

\* needle occurs in hay starting at position i.
MatchAt(hay, needle, i) ==
    /\ i + Len(needle) - 1 <= Len(hay)
    /\ \A k \in 1..Len(needle) : hay[i + k - 1] = needle[k]

\* Python's "needle in hay" on strings.
Contains(hay, needle) == \E i \in 1..(Len(hay) + 1) : MatchAt(hay, needle, i)

\* A classification that forgets .lower().
IsRetryableCaseSensitive(code) == \E c \in RetryableCodes : Contains(code, c)

\* _is_retryable_error
IsRetryable(code) == \E c \in RetryableCodes : Contains(LowerStr(code), c)

\* ------------------------------------------------------------ worker: values
NoOutcome == [success |-> FALSE, error_code |-> "undecided"]
Success == [success |-> TRUE, error_code |-> "none"]
Failure(code) == [success |-> FALSE, error_code |-> code]

\* process.returncode values: killed by a signal, clean exit, error exit.
ExitCodes == {-9, 0, 1}

\* heartbeat_interval of a lease response: a number of ticks, or a value
\* asyncio.sleep rejects (null, a string).
TaskIds == 1..MaxTaskId
Tasks ==
    [hbi : 0..MaxInterval, numeric : {TRUE}, task_id : TaskIds]
    \cup [hbi : {0}, numeric : {FALSE}, task_id : TaskIds]
NoTask == [hbi |-> 0, numeric |-> TRUE, task_id |-> 0]

LeaseResponses == {"204", "error", "empty", "malformed", "task"}

HbAlive == {"created", "sleeping", "sending"}

WorkerInit ==
    /\ runIdFilter \in BOOLEAN
    /\ running = TRUE
    /\ interrupted = FALSE
    /\ pc = "loop"
    /\ lastLease = "none"
    /\ leased = FALSE
    /\ task = NoTask
    /\ ex = "none"
    /\ portalStatus = "none"
    /\ spider = "none"
    /\ outcome = NoOutcome
    /\ returncode = {}
    /\ proc = "none"
    /\ killSent = FALSE
    /\ hb = "none"
    /\ hbTaskId = 0
    /\ hbTimer = 0
    /\ hbStatus = "none"
    /\ hbFailed = FALSE
    /\ hbSent = 0
    /\ elapsed = 0
    /\ timeLeft = 0
    /\ leaseLeft = 0
    /\ completeSent = 0
    /\ failSent = 0
    /\ failRetryable = {}
    /\ exc = "none"
    /\ slept = "none"

RetryIdle ==
    /\ errorCode = <<>>
    /\ retryable = FALSE
    /\ retryPc = "idle"

\* No URL has been given to normalize_url.
NoUrl == [host |-> <<>>, path |-> <<>>, params |-> <<>>]

NormIdle ==
    /\ portal = "none"
    /\ input = NoUrl
    /\ canonicalUrl = <<>>
    /\ again = <<>>
    /\ other = NoUrl
    /\ otherCanonical = <<>>
    /\ relation = "none"
    /\ npc = "idle"

\* No log file has been read.
ContextIdle ==
    /\ logLines = <<>>
    /\ logReadable = FALSE
    /\ errorContext = <<>>
    /\ ctxOutcome = NoOutcome
    /\ ctxPc = "idle"

\* No discovery callback has run.
CollectIdle ==
    /\ cportal = "none"
    /\ unitPages = <<>>
    /\ listingPage = 0
    /\ cpc = "idle"
    /\ discovered = <<>>
    /\ yielded = <<>>
    /\ uploads = <<>>
    /\ storeErrors = 0

\* ---------------------------------------------------------- worker: helpers
\* lease_task on 204: a dedicated worker clears self.running.
DrainNever(filter) == FALSE
DrainAlways(filter) == TRUE
DrainOn204(filter) == filter

\* lease_task clears self.running in the 204 branch only; a failed request
\* or a task leaves it as it is.
DrainsOnNoTask(resp, filter) == resp \in {"204", "error", "empty"} /\ filter
DrainsOn(resp, filter) == resp = "204" /\ DrainOn204(filter)

\* run's "except Exception": log, sleep 5, next iteration.
OnLoopExceptionExit == "stopped"
OnLoopException == "backoff"

\* run's report step: complete on success, fail otherwise.
ReportKindInverted(out) == IF out.success THEN "fail" ELSE "complete"
ReportKind(out) == IF out.success THEN "complete" ELSE "fail"

\* The first step of _heartbeat_loop: asyncio.sleep(interval) raises
\* TypeError outside the inner try when interval is not a number.
HbStart(t) == IF t.numeric THEN "sleeping" ELSE "failed"

\* create_task(self._heartbeat_loop(task_id, heartbeat_interval)): the
\* heartbeat task posts to the task_id of the task just leased.
HbTaskIdFirst(t) == 1
HbTaskId(t) == t.task_id

\* _heartbeat_loop sleeps a whole interval before every request.
HbSendsFirst(t) == 0
HbInitialDelay(t) == t.hbi

\* _heartbeat_loop after a heartbeat response: whatever the status or the
\* exception, log and go round the "while True" again.
HbStopsOnFailure(status) == IF status = "ok" THEN "sleeping" ELSE "failed"
HbAfterResponse(status) == "sleeping"

\* heartbeat_task.cancel(): a task that is not done gets a CancelledError at
\* its next step; a done task is left as it is.
CancelHb(h) == IF h \in HbAlive THEN "cancelling" ELSE h

\* "await heartbeat_task" returns (or raises) once the task is done.
HbNotAwaited(h) == TRUE
HbAwaited(h) == h \in {"cancelled", "failed"}

\* The error codes execute_task returns, as character sequences; None
\* (success) is classified as "".
ErrorCodeChars(code) ==
    CASE code = "timeout" -> <<"t","i","m","e","o","u","t">>
      [] code = "spider_error" -> <<"s","p","i","d","e","r","_","e","r","r","o","r">>
      [] code = "execution_error" ->
            <<"e","x","e","c","u","t","i","o","n","_","e","r","r","o","r">>
      [] OTHER -> <<>>

\* _is_retryable_error on each code an outcome can carry.
RetryableOfCode ==
    [code \in {"timeout", "spider_error", "execution_error", "none", "undecided"} |->
        IsRetryable(ErrorCodeChars(code))]

\* fail_task: retryable = self._is_retryable_error(error_code or "")
FailRetryableNever(out) == FALSE
FailRetryable(out) == RetryableOfCode[out.error_code]

\* complete_task / fail_task return normally whether the request succeeded
\* or failed; run goes to the next iteration.
AfterReportBackoff(r) == IF r = "error" THEN "backoff" ELSE "loop"
AfterReport(r) == "loop"

\* execute_task on process exit.
ExitOutcomeNegativeOk(rc) == IF rc <= 0 THEN Success ELSE Failure("spider_error")
ExitOutcome(rc) == IF rc = 0 THEN Success ELSE Failure("spider_error")

\* "await process.wait()" after process.kill() returns once the process has
\* terminated.
ProcNotWaited == "alive"
ProcAfterWait == "dead"

\* process.communicate() returns once the process has terminated and its
\* pipes are closed.
ProcStillRunning == "alive"
ProcAfterExit == "dead"

\* GET /api/portals/{portal_id}: a record with a spider_name, a record
\* without the key, a record whose spider_name is null, or a failure
\* (exception, error status, unreadable body).
PortalResponses == {"name", "noname", "null", "error"}

\* _get_spider_name: portal.get('spider_name', portal_id), and portal_id
\* again in the except branch.
SpiderNameNoFallback(r) ==
    CASE r = "name" -> "spider_name" [] r = "noname" -> "portal_id" [] OTHER -> "None"
SpiderName(r) ==
    CASE r = "name" -> "spider_name" [] r = "null" -> "None" [] OTHER -> "portal_id"

\* asyncio.wait_for(process.communicate(), timeout=7200) raises TimeoutError
\* once the timeout has run out.
TimeoutNever(left) == FALSE
TimeoutExpired(left) == left = 0

\* execute_task returns (or raises): the finally block of
\* execute_task_with_heartbeat cancels the heartbeat and awaits it.
Settle(out, rc, exState) ==
    /\ outcome' = out
    /\ returncode' = rc
    /\ ex' = exState
    /\ hb' = CancelHb(hb)
    /\ pc' = "awaitHb"

\* ---------------------------------------------------------- worker: actions
\* "while self.running:" is true; "task = await self.lease_task()" posts the
\* lease request.  The per-iteration record is cleared here.
IssueLease ==
    /\ pc = "loop" /\ running
    /\ pc' = "leasing"
    /\ lastLease' = "none" /\ leased' = FALSE /\ task' = NoTask
    /\ ex' = "none" /\ spider' = "none" /\ outcome' = NoOutcome /\ returncode' = {}
    /\ proc' = "none" /\ killSent' = FALSE
    /\ hb' = "none" /\ hbTimer' = 0 /\ hbStatus' = "none" /\ hbFailed' = FALSE
    /\ hbSent' = 0 /\ elapsed' = 0 /\ timeLeft' = 0 /\ leaseLeft' = 0
    /\ completeSent' = 0 /\ failSent' = 0 /\ exc' = "none" /\ slept' = "none"
    /\ hbTaskId' = 0 /\ failRetryable' = {} /\ portalStatus' = "none"
    /\ UNCHANGED <<runIdFilter, running, interrupted, restOfWorker>>

\* "while self.running:" is false: close the client, return.
ExitLoop ==
    /\ pc = "loop" /\ ~running
    /\ pc' = "stopped"
    /\ UNCHANGED <<runIdFilter, running, interrupted, lastLease, leased, task,
                   ex, spider, outcome, returncode, hb, hbTimer, hbStatus,
                   hbFailed, hbSent, elapsed, timeLeft, leaseLeft, completeSent,
                   failSent, exc, slept, proc, killSent,
                   hbTaskId, failRetryable, portalStatus, restOfWorker>>

\* The lease request returns.  204: no task (a dedicated worker clears
\* self.running).  error: an exception or an error status, absorbed by
\* lease_task.  empty: a falsy JSON body.  malformed: a truthy body without
\* task_id / task_type, so run raises at line 74.  task: a task; run creates
\* the heartbeat task and enters execute_task.
LeaseResponse ==
    /\ pc = "leasing"
    /\ \E resp \in LeaseResponses, t \in Tasks :
        /\ lastLease' = resp
        /\ running' = IF DrainsOn(resp, runIdFilter) THEN FALSE ELSE running
        /\ leased' = (resp = "task")
        /\ task' = IF resp = "task" THEN t ELSE task
        /\ exc' = CASE resp = "error" -> "lease"
                    [] resp = "malformed" -> "loop"
                    [] OTHER -> exc
        /\ pc' = CASE resp = "task" -> "executing"
                   [] resp = "malformed" -> OnLoopException
                   [] OTHER -> "pollSleep"
        /\ ex' = IF resp = "task" THEN "setup" ELSE ex
        /\ hb' = IF resp = "task" THEN "created" ELSE hb
        /\ leaseLeft' = IF resp = "task" THEN LeaseWindow ELSE leaseLeft
        /\ hbTaskId' = IF resp = "task" THEN HbTaskId(t) ELSE hbTaskId
    /\ UNCHANGED <<runIdFilter, interrupted, spider, outcome, returncode, hbTimer,
                   hbStatus, hbFailed, hbSent, elapsed, timeLeft, completeSent,
                   failSent, slept, proc, killSent, failRetryable,
                   portalStatus, restOfWorker>>

\* "await asyncio.sleep(POLL_INTERVAL); continue"
PollSleepDone ==
    /\ pc = "pollSleep"
    /\ pc' = "loop" /\ slept' = "poll"
    /\ UNCHANGED <<runIdFilter, running, interrupted, lastLease, leased, task,
                   ex, spider, outcome, returncode, hb, hbTimer, hbStatus,
                   hbFailed, hbSent, elapsed, timeLeft, leaseLeft, completeSent,
                   failSent, exc, proc, killSent,
                   hbTaskId, failRetryable, portalStatus, restOfWorker>>

\* "await asyncio.sleep(5)" of run's exception handler.
BackoffDone ==
    /\ pc = "backoff"
    /\ pc' = "loop" /\ slept' = "backoff"
    /\ UNCHANGED <<runIdFilter, running, interrupted, lastLease, leased, task,
                   ex, spider, outcome, returncode, hb, hbTimer, hbStatus,
                   hbFailed, hbSent, elapsed, timeLeft, leaseLeft, completeSent,
                   failSent, exc, proc, killSent,
                   hbTaskId, failRetryable, portalStatus, restOfWorker>>

\* execute_task before its try block: read the task's fields, make the log
\* directory.  Either raises (KeyError, OSError); otherwise execute_task
\* reaches its first await and the heartbeat task takes its first step.
Setup ==
    /\ pc = "executing" /\ ex = "setup"
    /\ \/ /\ ex' = "portal"
          /\ hb' = HbStart(task)
          /\ hbTimer' = HbInitialDelay(task)
          /\ UNCHANGED <<pc, outcome, returncode, exc>>
       \/ /\ Settle(NoOutcome, {}, "raised")
          /\ exc' = "loop"
          /\ UNCHANGED hbTimer
    /\ UNCHANGED <<runIdFilter, running, interrupted, lastLease, leased, task,
                   spider, hbStatus, hbFailed, hbSent, elapsed, timeLeft,
                   leaseLeft, completeSent, failSent, slept, proc, killSent,
                   hbTaskId, failRetryable, portalStatus, restOfWorker>>

\* _get_spider_name returns: the record's spider_name, or portal_id when the
\* record has no such key or the request failed; None when the record's
\* spider_name is null.
PortalResponse ==
    /\ pc = "executing" /\ ex = "portal"
    /\ \E r \in PortalResponses :
        /\ portalStatus' = r
        /\ spider' = SpiderName(r)
    /\ ex' = "spawn"
    /\ UNCHANGED <<runIdFilter, running, interrupted, pc, lastLease, leased, task,
                   outcome, returncode, hb, hbTimer, hbStatus, hbFailed, hbSent,
                   elapsed, timeLeft, leaseLeft, completeSent, failSent, exc,
                   slept, proc, killSent,
                   hbTaskId, failRetryable, restOfWorker>>

\* create_subprocess_exec returns the process, or raises and execute_task
\* returns execution_error.  With None as the spider name the command line
\* cannot be built (TypeError inside the try block).
Spawn ==
    /\ pc = "executing" /\ ex = "spawn"
    /\ \/ /\ spider # "None"
          /\ ex' = "running"
          /\ proc' = "alive"
          /\ timeLeft' = TimeoutTicks
          /\ UNCHANGED <<pc, outcome, returncode, hb>>
       \/ /\ Settle(Failure("execution_error"), {}, "done")
          /\ UNCHANGED <<timeLeft, proc>>
    /\ UNCHANGED killSent
    /\ UNCHANGED <<runIdFilter, running, interrupted, lastLease, leased, task,
                   spider, hbTimer, hbStatus, hbFailed, hbSent, elapsed,
                   leaseLeft, completeSent, failSent, exc, slept, hbTaskId, failRetryable, portalStatus, restOfWorker>>

\* process.communicate() returns within the timeout.
ProcessExit ==
    /\ pc = "executing" /\ ex = "running"
    /\ \E rc \in ExitCodes : Settle(ExitOutcome(rc), {rc}, "done")
    /\ proc' = ProcAfterExit
    /\ UNCHANGED killSent
    /\ UNCHANGED <<runIdFilter, running, interrupted, lastLease, leased, task,
                   spider, hbTimer, hbStatus, hbFailed, hbSent, elapsed, timeLeft,
                   leaseLeft, completeSent, failSent, exc, slept, hbTaskId, failRetryable, portalStatus, restOfWorker>>

\* asyncio.wait_for times out: process.kill(), then "await process.wait()".
ExecTimeout ==
    /\ pc = "executing" /\ ex = "running" /\ TimeoutExpired(timeLeft)
    /\ killSent' = TRUE
    /\ ex' = "killing"
    /\ UNCHANGED proc
    /\ UNCHANGED <<runIdFilter, running, interrupted, pc, lastLease, leased, task,
                   spider, outcome, returncode, hb, hbTimer, hbStatus, hbFailed,
                   hbSent, elapsed, timeLeft, leaseLeft, completeSent, failSent,
                   exc, slept, hbTaskId, failRetryable, portalStatus, restOfWorker>>

\* process.wait() returns: execute_task returns the timeout failure.
KillWaitDone ==
    /\ pc = "executing" /\ ex = "killing"
    /\ proc' = ProcAfterWait
    /\ Settle(Failure("timeout"), {}, "done")
    /\ UNCHANGED killSent
    /\ UNCHANGED <<runIdFilter, running, interrupted, lastLease, leased, task,
                   spider, hbTimer, hbStatus, hbFailed, hbSent, elapsed, timeLeft,
                   leaseLeft, completeSent, failSent, exc, slept, hbTaskId, failRetryable, portalStatus, restOfWorker>>

\* One tick of time passes while execute_task is suspended at an await.
Tick ==
    /\ pc = "executing" /\ ex \in {"portal", "spawn", "running", "killing"}
    /\ hb = "sleeping" => hbTimer > 0
    /\ ex = "running" => timeLeft > 0
    /\ elapsed' = Min(elapsed + 1, ElapsedCap)
    /\ hbTimer' = IF hb = "sleeping" THEN hbTimer - 1 ELSE hbTimer
    /\ timeLeft' = IF ex = "running" THEN timeLeft - 1 ELSE timeLeft
    /\ leaseLeft' = Max(leaseLeft - 1, 0)
    /\ UNCHANGED <<runIdFilter, running, interrupted, pc, lastLease, leased, task,
                   ex, spider, outcome, returncode, hb, hbStatus, hbFailed,
                   hbSent, completeSent, failSent, exc, slept, proc, killSent,
                   hbTaskId, failRetryable, portalStatus, restOfWorker>>

\* _heartbeat_loop: asyncio.sleep(interval) is over, post the heartbeat.
HbWake ==
    /\ hb = "sleeping" /\ hbTimer = 0
    /\ hb' = "sending"
    /\ hbStatus' = "pending"
    /\ hbSent' = Min(hbSent + 1, MaxHb)
    /\ UNCHANGED <<runIdFilter, running, interrupted, pc, lastLease, leased, task,
                   ex, spider, outcome, returncode, hbTimer, hbFailed, elapsed,
                   timeLeft, leaseLeft, completeSent, failSent, exc, slept,
                   proc, killSent,
                   hbTaskId, failRetryable, portalStatus, restOfWorker>>

\* _heartbeat_loop: the heartbeat request returns 200 (the dashboard extends
\* the lease), another status, or raises; then the next asyncio.sleep.
HbResponse ==
    /\ hb = "sending"
    /\ \E status \in {"ok", "other", "exception"} :
        /\ hb' = HbAfterResponse(status)
        /\ hbStatus' = status
        /\ hbFailed' = (hbFailed \/ status # "ok")
        /\ leaseLeft' = IF status = "ok" THEN LeaseWindow ELSE leaseLeft
    /\ hbTimer' = task.hbi
    /\ UNCHANGED <<runIdFilter, running, interrupted, pc, lastLease, leased, task,
                   ex, spider, outcome, returncode, hbSent, elapsed, timeLeft,
                   completeSent, failSent, exc, slept, proc, killSent,
                   hbTaskId, failRetryable, portalStatus, restOfWorker>>

\* The cancelled heartbeat task takes its last step: CancelledError is
\* raised at its await, logged and re-raised.
HbTerminate ==
    /\ hb = "cancelling"
    /\ hb' = "cancelled"
    /\ UNCHANGED <<runIdFilter, running, interrupted, pc, lastLease, leased, task,
                   ex, spider, outcome, returncode, hbTimer, hbStatus, hbFailed,
                   hbSent, elapsed, timeLeft, leaseLeft, completeSent, failSent,
                   exc, slept, proc, killSent,
                   hbTaskId, failRetryable, portalStatus, restOfWorker>>

\* "await heartbeat_task" in the finally block is over.  A pending exception
\* of execute_task, or the heartbeat task's own exception, goes to run's
\* handler; otherwise run posts the complete or the fail request.
AwaitHbDone ==
    /\ pc = "awaitHb" /\ HbAwaited(hb)
    /\ IF ex = "raised" \/ hb = "failed"
       THEN /\ pc' = OnLoopException
            /\ exc' = "loop"
            /\ UNCHANGED <<completeSent, failSent, failRetryable>>
       ELSE /\ pc' = "reporting"
            /\ completeSent' = completeSent + (IF ReportKind(outcome) = "complete" THEN 1 ELSE 0)
            /\ failSent' = failSent + (IF ReportKind(outcome) = "fail" THEN 1 ELSE 0)
            /\ failRetryable' = IF ReportKind(outcome) = "fail"
                                THEN {FailRetryable(outcome)} ELSE {}
            /\ UNCHANGED exc
    /\ UNCHANGED <<runIdFilter, running, interrupted, lastLease, leased, task,
                   ex, spider, outcome, returncode, hb, hbTimer, hbStatus,
                   hbFailed, hbSent, elapsed, timeLeft, leaseLeft, slept,
                   proc, killSent,
                   hbTaskId, portalStatus, restOfWorker>>

\* complete_task / fail_task: the request returns or fails; a failure is
\* logged and absorbed.  The iteration is over.
ReportResponse ==
    /\ pc = "reporting"
    /\ \E r \in {"ok", "error"} :
        /\ exc' = IF r = "error" THEN "report" ELSE exc
        /\ pc' = AfterReport(r)
    /\ UNCHANGED <<runIdFilter, running, interrupted, lastLease, leased, task,
                   ex, spider, outcome, returncode, hb, hbTimer, hbStatus,
                   hbFailed, hbSent, elapsed, timeLeft, leaseLeft, completeSent,
                   failSent, slept, proc, killSent,
                   hbTaskId, failRetryable, portalStatus, restOfWorker>>

\* KeyboardInterrupt at any await of the loop: the finally block cancels a
\* live heartbeat, run clears self.running and breaks.
Interrupt ==
    /\ pc \in {"leasing", "pollSleep", "executing", "awaitHb", "reporting", "backoff"}
    /\ interrupted' = TRUE
    /\ running' = FALSE
    /\ pc' = "stopped"
    /\ hb' = IF hb \in HbAlive \cup {"cancelling"} THEN "cancelled" ELSE hb
    /\ UNCHANGED <<runIdFilter, lastLease, leased, task, ex, spider, outcome,
                   returncode, hbTimer, hbStatus, hbFailed, hbSent, elapsed,
                   timeLeft, leaseLeft, completeSent, failSent, exc, slept,
                   proc, killSent, hbTaskId, failRetryable, portalStatus, restOfWorker>>

\* ------------------------------------------------------- partition resolver
\* build_requests_from_task of BaseJimmySpider (spiders/base.py) is a
\* generator: the crawl engine pulls one fetch descriptor (scrapy.Request) at
\* a time, schedules it, and later delivers its response to the descriptor's
\* callback or its failure to the descriptor's errback.  The URL builders
\* (get_page_url, get_year_url, ...) belong to the portal; a descriptor
\* records the unit it was built from.

\* Largest page number, year and document id of a payload.  Years are counted
\* from the first year of the portal's archive (year 1).
MaxUnit == 2
\* Longest urls list of a url_batch payload.
MaxUrls == 2
\* Listing pages of one year (pagination depth of parse_listing).
MaxListingPages == 2

\* payload.get(key): {} when the key is absent, {v} when it holds v.
Opt(S) == {{}} \cup {{v} : v \in S}
Get(field, default) == IF field = {} THEN default ELSE CHOOSE v \in field : TRUE

\* Python's "not x" on an absent value or an integer.
Falsy(field) == field = {} \/ field = {0}

Urls == {"u1", "u2"}
UrlLists == UNION {[1..n -> Urls] : n \in 0..MaxUrls}

\* self.start_urls of the portal.
StartUrls == <<"u1">>

\* section_id values of a section payload; a descriptor built from a payload
\* without one carries None (0).
SectionIds == {MaxUnit + 1}

KnownTypes == {"page_range", "date_range", "year_range", "section",
               "id_range", "alpha_range", "url_batch", "discover"}

\* A task payload: partition_type, the two bounds (start_* / from_* and
\* end_* / to_*), urls, section_url and section_id, each possibly absent.
PayloadOf(types, bounds, lists, sections, ids) ==
    [partition_type : types, lo : bounds, hi : bounds, urls : lists,
     section_url : sections, section_id : ids]

Payloads ==
    PayloadOf({{"page_range"}, {"id_range"}}, Opt(0..MaxUnit), {{}}, {{}}, {{}})
    \cup PayloadOf({{"year_range"}}, Opt(1..MaxUnit), {{}}, {{}}, {{}})
    \cup PayloadOf({{"date_range"}, {"alpha_range"}}, Opt({1}), {{}}, {{}}, {{}})
    \cup PayloadOf({{"section"}}, {{}}, {{}}, Opt({"u1"}), Opt(SectionIds))
    \cup PayloadOf({{"url_batch"}}, {{}}, Opt(UrlLists), {{}}, {{}})
    \cup PayloadOf({{"discover"}, {"bogus"}, {}}, {{}}, {{}}, {{}}, {{}})

NoPayload ==
    [partition_type |-> {}, lo |-> {}, hi |-> {}, urls |-> {}, section_url |-> {},
     section_id |-> {}]

\* A fetch descriptor: scrapy.Request(url, callback, errback, meta).  origin
\* and page are history: the year of the descriptor a request derives from
\* (0 if none) and its listing page.
Request(kind, unit, url, callback, errback, jar, origin, page) ==
    [kind |-> kind, unit |-> unit, url |-> url, callback |-> callback,
     errback |-> errback, cookiejar |-> jar, origin |-> origin, page |-> page]

ResolveIdle ==
    /\ payload = NoPayload
    /\ hasListing = FALSE
    /\ rpc = "idle"
    /\ cursor = 0
    /\ limit = 0
    /\ descs = <<>>
    /\ rerrors = 0
    /\ inflight = {}
    /\ absorbed = {}

\* _build_page_range_requests: range(start_page, end_page + 1) ends with
\* end_page.
PageRangeLastExclusive(end_page) == end_page - 1
PageRangeLast(end_page) == end_page

\* _build_page_range_requests: payload.get('start_page', 1) and
\* payload.get('end_page', 1).
PageOrDefaultZero(field) == Get(field, 0)
PageOrDefault(field) == Get(field, 1)

\* _build_id_range_requests: range(start_id, end_id + 1) ends with end_id.
IdRangeLastExclusive(end_id) == end_id - 1
IdRangeLast(end_id) == end_id

\* _build_year_range_requests: "if not start_year or not end_year".
YearBoundsMissingBoth(start_year, end_year) == Falsy(start_year) /\ Falsy(end_year)
YearBoundsMissing(start_year, end_year) == Falsy(start_year) \/ Falsy(end_year)

\* _build_url_batch_requests: errback=self.errback_url.
UrlBatchNoErrback == "none"
UrlBatchErrback == "errback_url"

\* _build_section_requests: meta={'section_id': section_id}.
SectionMeta(p) == Get(p.section_id, 0)

\* parse_listing: follow-ups carry response.meta['cookiejar'].
FollowupJarDefault(r) == {}
FollowupJar(r) == r.cookiejar

Loop(from, to) == [status |-> "loop", from |-> from, to |-> to, errors |-> 0]
Finished(errors) == [status |-> "done", from |-> 0, to |-> 0, errors |-> errors]
Raised == [status |-> "raised", from |-> 0, to |-> 0, errors |-> 0]

\* build_requests_from_task up to the handler's loop: the values the loop
\* runs over, or how the generator ends without yielding.  range() on an
\* absent bound raises TypeError.
Plan(p) ==
    LET t == p.partition_type IN
    IF t = {"page_range"} THEN
        Loop(PageOrDefault(p.lo), PageRangeLast(PageOrDefault(p.hi)))
    ELSE IF t = {"date_range"} THEN Loop(1, 1)
    ELSE IF t = {"year_range"} THEN
        IF YearBoundsMissing(p.lo, p.hi) THEN Finished(1)
        ELSE IF p.lo = {} \/ p.hi = {} THEN Raised
        ELSE Loop(Get(p.lo, 0), Get(p.hi, 0))
    ELSE IF t = {"section"} THEN
        IF p.section_url # {} THEN Loop(1, 1) ELSE Finished(0)
    ELSE IF t = {"id_range"} THEN
        IF p.lo = {} \/ p.hi = {} THEN Raised
        ELSE Loop(Get(p.lo, 0), IdRangeLast(Get(p.hi, 0)))
    ELSE IF t = {"alpha_range"} THEN Loop(1, 1)
    ELSE IF t = {"url_batch"} THEN Loop(1, Len(Get(p.urls, <<>>)))
    ELSE IF t = {"discover"} THEN Loop(1, Len(StartUrls))
    ELSE Finished(1)

\* The descriptor the handler's loop yields for the value i.
Descriptor(p, i, listing) ==
    LET t == p.partition_type IN
    IF t = {"page_range"} THEN
        Request("page_range", i, "", "parse", "none", {}, 0, 1)
    ELSE IF t = {"year_range"} THEN
        Request("year_range", i, "",
                IF listing THEN "parse_listing" ELSE "parse", "none", {i}, i, 1)
    ELSE IF t = {"id_range"} THEN
        Request("id_range", i, "", "parse_detail", "none", {}, 0, 1)
    ELSE IF t = {"url_batch"} THEN
        Request("url_batch", i, Get(p.urls, <<>>)[i], "parse_detail",
                UrlBatchErrback, {}, 0, 1)
    ELSE IF t = {"section"} THEN
        Request("section", SectionMeta(p), Get(p.section_url, ""), "parse", "none",
                {}, 0, 1)
    ELSE IF t = {"discover"} THEN
        Request("discover", i, StartUrls[i], "parse_for_links", "none", {}, 0, 1)
    ELSE Request(Get(t, ""), i, "", "parse", "none", {}, 0, 1)

\* One next() on the generator inside a handler's loop: yield the descriptor
\* of the next value (the engine schedules it), or end.
Advance(cur, lim) ==
    IF cur <= lim
    THEN /\ descs' = Append(descs, Descriptor(payload, cur, hasListing))
         /\ inflight' = inflight \cup {Descriptor(payload, cur, hasListing)}
         /\ cursor' = cur + 1
         /\ rpc' = "loop"
    ELSE /\ rpc' = "done"
         /\ UNCHANGED <<descs, inflight, cursor>>

\* The first next(): dispatch on partition_type, the handler's checks, and
\* its first yield.
StartRequests ==
    /\ rpc = "start"
    /\ LET plan == Plan(payload) IN
        IF plan.status = "loop"
        THEN /\ limit' = plan.to
             /\ Advance(plan.from, plan.to)
             /\ UNCHANGED rerrors
        ELSE /\ rpc' = plan.status
             /\ rerrors' = plan.errors
             /\ UNCHANGED <<cursor, limit, descs, inflight>>
    /\ UNCHANGED <<payload, hasListing, absorbed, restOfResolve>>

\* A later next().
NextRequest ==
    /\ rpc = "loop"
    /\ Advance(cursor, limit)
    /\ UNCHANGED <<payload, hasListing, limit, rerrors, absorbed, restOfResolve>>

\* parse_listing on a listing page with links detail links and, if more, a
\* link to the next page.
ParseListing(r, links, more) ==
    IF links = 0 THEN {}
    ELSE {Request("detail", 0, "", "parse_summary_and_trigger_export", "none",
                  FollowupJar(r), r.origin, r.page)}
         \cup (IF more
               THEN {Request("listing", r.unit, "", "parse_listing", "none",
                             FollowupJar(r), r.origin, r.page + 1)}
               ELSE {})

\* The engine delivers the response of r to its callback ...
Response(r) ==
    /\ r \in inflight
    /\ \E links \in 0..1, more \in BOOLEAN :
          /\ more => r.page < MaxListingPages
          /\ inflight' = (inflight \ {r}) \cup
                (IF r.callback = "parse_listing"
                 THEN ParseListing(r, links, more) ELSE {})
    /\ UNCHANGED <<payload, hasListing, rpc, cursor, limit, descs, rerrors,
                   absorbed, restOfResolve>>

\* ... or its failure to its errback (errback_url logs it); a failure
\* without errback is logged by the engine.  The crawl goes on either way.
FetchFailure(r) ==
    /\ r \in inflight
    /\ inflight' = inflight \ {r}
    /\ absorbed' = absorbed \cup {[kind |-> r.kind, unit |-> r.unit, by |-> r.errback]}
    /\ UNCHANGED <<payload, hasListing, rpc, cursor, limit, descs, rerrors,
                   restOfResolve>>

ResolveInit ==
    /\ WorkerInit /\ runIdFilter = FALSE
    /\ RetryIdle
    /\ NormIdle
    /\ CollectIdle
    /\ ContextIdle
    /\ payload \in Payloads
    /\ hasListing \in BOOLEAN
    /\ rpc = "start"
    /\ cursor = 0
    /\ limit = 0
    /\ descs = <<>>
    /\ rerrors = 0
    /\ inflight = {}
    /\ absorbed = {}

ResolveNext ==
    \/ StartRequests
    \/ NextRequest
    \/ \E r \in inflight : Response(r)
    \/ \E r \in inflight : FetchFailure(r)

ResolveSpec == ResolveInit /\ [][ResolveNext]_vars

\* ------------------------------------------------------------ URL normalizer
\* normalize_url of the three portal spiders (dummy_direct.py,
\* dummy_discover.py, dummy_hybrid.py): urlparse, parse_qs, pop of the
\* denylisted names, sorted, urlencode, lower.  Strings are sequences of
\* characters; the characters are printable ASCII.

\* The printable ASCII characters in code order (32..126); "grave" stands at
\* the place of the grave accent (96), which no string here contains.
Ascii ==
    <<" ", "!", "\"", "#", "$", "%", "&", "'", "(", ")", "*", "+", ",", "-",
      ".", "/", "0", "1", "2", "3", "4", "5", "6", "7", "8", "9", ":", ";",
      "<", "=", ">", "?", "@", "A", "B", "C", "D", "E", "F", "G", "H", "I",
      "J", "K", "L", "M", "N", "O", "P", "Q", "R", "S", "T", "U", "V", "W",
      "X", "Y", "Z", "[", "\\", "]", "^", "_", "grave", "a", "b", "c", "d", "e",
      "f", "g", "h", "i", "j", "k", "l", "m", "n", "o", "p", "q", "r", "s",
      "t", "u", "v", "w", "x", "y", "z", "{", "|", "}", "~">>

\* ord(c)
Ord(c) == 31 + CHOOSE i \in 1..Len(Ascii) : Ascii[i] = c

\* chr(n) for a printable code.
Chr(n) == Ascii[n - 31]

IsDigit(c) == \E i \in 17..26 : Ascii[i] = c
IsAlpha(c) == (\E i \in 1..Len(Upper) : Upper[i] = c) \/ (\E i \in 1..Len(Lower) : Lower[i] = c)

\* str.upper() on one character.
UpperChar(c) ==
    IF \E i \in 1..Len(Lower) : Lower[i] = c
    THEN Upper[CHOOSE i \in 1..Len(Lower) : Lower[i] = c]
    ELSE c

UpperStr(s) == [i \in 1..Len(s) |-> UpperChar(s[i])]

HexDigits == <<"0", "1", "2", "3", "4", "5", "6", "7", "8", "9",
               "A", "B", "C", "D", "E", "F">>
IsHex(c) == \E i \in 1..Len(HexDigits) : HexDigits[i] = UpperChar(c)
HexValue(c) == (CHOOSE i \in 1..Len(HexDigits) : HexDigits[i] = UpperChar(c)) - 1

\* F(v), with v evaluated once: the assignment of a local variable.
With(v, F(_)) == CHOOSE r \in {F(x) : x \in {v}} : TRUE

\* The least element of a non-empty set of numbers.
Least(S) == CHOOSE x \in S : \A y \in S : x <= y

\* s.find(c) from position from on: the first index, 0 if there is none.
Find(s0, c, from) ==
    With(s0, LAMBDA s :
        With({i \in from..Len(s) : s[i] = c}, LAMBDA I :
            IF I = {} THEN 0 ELSE Least(I)))

\* s[i:] (1-based).
From(s0, i) == With(s0, LAMBDA s : SubSeq(s, i, Len(s)))

\* s.split(c)
RECURSIVE Split(_, _)
Split(s0, c) ==
    With(s0, LAMBDA s :
        With(Find(s, c, 1), LAMBDA i :
            IF i = 0 THEN <<s>>
            ELSE <<SubSeq(s, 1, i - 1)>> \o Split(From(s, i + 1), c)))

\* The concatenation of a sequence of strings, sep between them.
RECURSIVE Join(_, _)
Join(parts0, sep) ==
    With(parts0, LAMBDA parts :
        IF parts = <<>> THEN <<>>
        ELSE IF Len(parts) = 1 THEN parts[1]
        ELSE parts[1] \o sep \o Join(Tail(parts), sep))

\* urllib.parse.quote_plus(s, safe=''): letters, digits and "_.-~" stay, a
\* space becomes "+", everything else %XX in upper-case hex.
QuoteChar(c) ==
    IF IsAlpha(c) \/ IsDigit(c) \/ c \in {"_", ".", "-", "~"} THEN <<c>>
    ELSE IF c = " " THEN <<"+">>
    ELSE With(Ord(c), LAMBDA n : <<"%", HexDigits[(n \div 16) + 1], HexDigits[(n % 16) + 1]>>)

QuotePlus(s0) ==
    With(s0, LAMBDA s : Join([i \in 1..Len(s) |-> QuoteChar(s[i])], <<>>))

\* The code of the escape %XX at the head of s, 0 if there is none.
EscapeCode(s) ==
    IF Len(s) >= 3 /\ s[1] = "%" /\ IsHex(s[2]) /\ IsHex(s[3])
    THEN 16 * HexValue(s[2]) + HexValue(s[3])
    ELSE 0

\* urllib.parse.unquote: %XX with two hex digits becomes the character of
\* that code (printable codes; any other escape is left as it is).
RECURSIVE Unquote(_)
Unquote(s0) ==
    With(s0, LAMBDA s :
        IF s = <<>> THEN <<>>
        ELSE With(EscapeCode(s), LAMBDA n :
                IF n \in 32..126
                THEN <<Chr(n)>> \o Unquote(From(s, 4))
                ELSE <<s[1]>> \o Unquote(Tail(s))))

\* s.replace('+', ' ')
PlusToSpace(s0) ==
    With(s0, LAMBDA s : [i \in 1..Len(s) |-> IF s[i] = "+" THEN " " ELSE s[i]])

\* One piece name=value of a query string as a list of at most one
\* (name, value) pair: a piece without "=" or with an empty value is skipped
\* (keep_blank_values=False).
PairOf(p) ==
    With(Find(p, "=", 1), LAMBDA i :
        IF i = 0 \/ i = Len(p) THEN <<>>
        ELSE <<<<Unquote(PlusToSpace(SubSeq(p, 1, i - 1))),
                 Unquote(PlusToSpace(From(p, i + 1)))>>>>)

\* urllib.parse.parse_qsl(qs): the (name, value) pairs in order.
ParseQsl(qs) ==
    With(Split(qs, "&"), LAMBDA pieces :
        Join([k \in 1..Len(pieces) |-> PairOf(pieces[k])], <<>>))

\* The values of name in pairs, in order of appearance.
ValuesOf(pairs, name) ==
    Join([k \in 1..Len(pairs) |->
            IF pairs[k][1] = name THEN <<pairs[k][2]>> ELSE <<>>], <<>>)

\* urllib.parse.parse_qs(qs): a dict from each name to the list of its values.
ParseQs(qs) ==
    With(ParseQsl(qs), LAMBDA pairs :
        [name \in {pairs[k][1] : k \in 1..Len(pairs)} |-> ValuesOf(pairs, name)])

\* Python's s < t on strings: by code, a proper prefix first.
StrLess(s, t) ==
    \E i \in 1..Len(t) :
        /\ \A k \in 1..(i - 1) : k <= Len(s) /\ s[k] = t[k]
        /\ (i > Len(s) \/ (i - 1 < Len(s) /\ Ord(s[i]) < Ord(t[i])))

\* sorted() of a set of distinct strings.
RECURSIVE Sorted(_)
Sorted(S0) ==
    With(S0, LAMBDA S :
        IF S = {} THEN <<>>
        ELSE With(CHOOSE x \in S : \A y \in S \ {x} : StrLess(x, y), LAMBDA m :
                <<m>> \o Sorted(S \ {m})))

\* The quote character repr() puts around v: the single quote, unless v
\* holds a single and no double quote.
ReprQuote(v) ==
    IF (\E i \in 1..Len(v) : v[i] = "'") /\ ~(\E i \in 1..Len(v) : v[i] = "\"")
    THEN "\"" ELSE "'"

\* repr() of a str: the quote character and the backslash are escaped.
Repr(v0) ==
    With(v0, LAMBDA v :
        With(ReprQuote(v), LAMBDA q :
            <<q>> \o Join([i \in 1..Len(v) |->
                              IF v[i] = "\\" \/ v[i] = q THEN <<"\\", v[i]>> ELSE <<v[i]>>],
                           <<>>)
            \o <<q>>))

\* str() of a list of str.
StrOfList(vs0) ==
    With(vs0, LAMBDA vs :
        <<"[">> \o Join([i \in 1..Len(vs) |-> Repr(vs[i])], <<",", " ">>) \o <<"]">>)

\* urllib.parse.urlencode(items) with doseq=False: every value goes through
\* str() before quoting, and the values here are the lists of parse_qs.
UrlEncode(items0) ==
    With(items0, LAMBDA items :
        Join([i \in 1..Len(items) |->
                QuotePlus(items[i][1]) \o <<"=">> \o QuotePlus(StrOfList(items[i][2]))],
             <<"&">>))

\* s up to the first occurrence of c (all of s if there is none), and what
\* follows that occurrence.
Before(s, c) == With(Find(s, c, 1), LAMBDA i : IF i = 0 THEN s ELSE SubSeq(s, 1, i - 1))
After(s, c) == With(Find(s, c, 1), LAMBDA i : IF i = 0 THEN <<>> ELSE From(s, i + 1))

\* url starts with a scheme: letters, digits, "+", "-", "." before the
\* first ":", the first a letter.
HasScheme(url) ==
    With(Find(url, ":", 1), LAMBDA c :
        /\ c > 1 /\ IsAlpha(url[1])
        /\ \A i \in 1..(c - 1) :
              IsAlpha(url[i]) \/ IsDigit(url[i]) \/ url[i] \in {"+", "-", "."})

\* The end of the netloc of "//netloc...": the first "/", "?" or "#".
NetlocEnd(s) ==
    With({i \in 3..Len(s) : s[i] \in {"/", "?", "#"}}, LAMBDA I :
        IF I = {} THEN Len(s) + 1 ELSE Least(I))

\* "//netloc" and what follows it, split.
SplitNetloc(rest0) ==
    With(rest0, LAMBDA rest :
        IF Len(rest) >= 2 /\ rest[1] = "/" /\ rest[2] = "/"
        THEN <<SubSeq(rest, 3, NetlocEnd(rest) - 1), From(rest, NetlocEnd(rest))>>
        ELSE <<<<>>, rest>>)

\* urllib.parse.urlparse(url): scheme, netloc, path and query (params and
\* fragment are not used by normalize_url).
UrlParse(url0) ==
    With(url0, LAMBDA url :
        With(SplitNetloc(IF HasScheme(url) THEN After(url, ":") ELSE url), LAMBDA nl :
            With(Before(nl[2], "#"), LAMBDA rest :
                [scheme |-> IF HasScheme(url)
                            THEN With(Before(url, ":"), LAMBDA scheme : LowerStr(scheme))
                            ELSE <<>>,
                 netloc |-> nl[1],
                 path |-> Before(rest, "?"),
                 query |-> After(rest, "?")])))

\* The query dict without the names of denylist: query.pop(name, None).
Pop(query0, denylist) ==
    With(query0, LAMBDA query : [name \in DOMAIN query \ denylist |-> query[name]])

\* sorted(query.items())
SortedItems(query0) ==
    With(query0, LAMBDA query :
        With(Sorted(DOMAIN query), LAMBDA keys :
            [i \in 1..Len(keys) |-> <<keys[i], query[keys[i]]>>]))

\* canonical = f"{scheme}://{netloc}{path}", then "?" and the query if any.
Canonical(parsed, sorted_query) ==
    parsed.scheme \o <<":", "/", "/">> \o parsed.netloc \o parsed.path
    \o (IF sorted_query # <<>> THEN <<"?">> \o sorted_query ELSE <<>>)

\* The body shared by the three normalize_url methods, denylist being the
\* names the method pops.
Normalize(denylist, url) ==
    With(UrlParse(url), LAMBDA parsed :
        With(UrlEncode(SortedItems(Pop(ParseQs(parsed.query), denylist))),
             LAMBDA sorted_query :
                With(Canonical(parsed, sorted_query), LAMBDA canonical :
                    LowerStr(canonical))))

\* The names each portal's normalize_url pops.
DirectDenylist ==
    {<<"s", "e", "s", "s", "i", "o", "n">>,
     <<"t", "i", "m", "e", "s", "t", "a", "m", "p">>,
     <<"u", "t", "m", "_", "s", "o", "u", "r", "c", "e">>,
     <<"u", "t", "m", "_", "m", "e", "d", "i", "u", "m">>}
DiscoverDenylist ==
    {<<"s", "e", "s", "s", "i", "o", "n">>, <<"_", "t">>}
HybridDenylist ==
    {<<"s", "e", "s", "s", "i", "o", "n">>, <<"s", "i", "d">>, <<"_", "t">>,
     <<"u", "t", "m", "_", "s", "o", "u", "r", "c", "e">>,
     <<"u", "t", "m", "_", "m", "e", "d", "i", "u", "m">>}

Portals == {"dummy_direct", "dummy_discover", "dummy_hybrid"}

Denylist(p) ==
    IF p = "dummy_direct" THEN DirectDenylist
    ELSE IF p = "dummy_discover" THEN DiscoverDenylist
    ELSE HybridDenylist

\* normalize_url of portal p.
NormalizeUrl(p, url) == Normalize(Denylist(p), url)

\* ---- the URLs given to normalize_url
\* Most query parameters of an input URL.
MaxParams == 2
\* Listing pages of one discovery unit, and distinct links on a page.
MaxUnitPages == 2
MaxLinks == 2

NameB == <<"b">>
NameA == <<"a">>
NameC == <<"c">>
NameUtmSource == <<"u", "t", "m", "_", "s", "o", "u", "r", "c", "e">>
NameSession == <<"s", "e", "s", "s", "i", "o", "n">>
NameT == <<"_", "t">>

\* name=value parameters of the input URLs.
ParamPool ==
    {<<NameB, <<"2">>>>, <<NameA, <<"1">>>>, <<NameC, <<"x">>>>,
     <<NameUtmSource, <<"x">>>>, <<NameSession, <<"s">>>>, <<NameT, <<"7">>>>,
     <<NameB, <<"3">>>>}

HostX == <<"x", ".", "c", "o", "m">>
PathA == <<"/", "a">>

\* An input URL in parts: https://host/path?name=value&...
UrlParts == [host : {HostX}, path : {PathA},
             params : UNION {[1..n -> ParamPool] : n \in 0..MaxParams}]

\* The URL string of the parts.
Raw(u) ==
    <<"h", "t", "t", "p", "s", ":", "/", "/">> \o u.host \o u.path
    \o (IF u.params = <<>> THEN <<>>
        ELSE <<"?">> \o Join([i \in 1..Len(u.params) |->
                                u.params[i][1] \o <<"=">> \o u.params[i][2]],
                             <<"&">>))

\* The same URL with letters of one part in the other case.
CaseVariants(u) ==
    {[u EXCEPT !.host = UpperStr(u.host)], [u EXCEPT !.path = UpperStr(u.path)]}
    \cup {[u EXCEPT !.params[i][1] = UpperStr(u.params[i][1])] : i \in 1..Len(u.params)}
    \cup {[u EXCEPT !.params[i][2] = UpperStr(u.params[i][2])] : i \in 1..Len(u.params)}

\* Session and tracking parameters.
VolatileNames == {NameSession, NameUtmSource}

\* The parameters of ps that are not volatile, in order.
RECURSIVE Stable(_)
Stable(ps) ==
    IF ps = <<>> THEN <<>>
    ELSE (IF ps[1][1] \in VolatileNames THEN <<>> ELSE <<ps[1]>>) \o Stable(Tail(ps))

\* The same URL without its volatile parameters, the host in either case.
StrippedVariants(u) ==
    {[u EXCEPT !.params = Stable(u.params)],
     [u EXCEPT !.params = Stable(u.params), !.host = UpperStr(u.host)]}

\* The same URL with its name=value pairs in another order.
PermutedVariants(u) ==
    {[u EXCEPT !.params = [i \in 1..Len(u.params) |-> u.params[f[i]]]] :
        f \in {g \in Permutations(1..Len(u.params)) : \E i \in 1..Len(u.params) : g[i] # i}}

NormInit ==
    /\ WorkerInit /\ runIdFilter = FALSE
    /\ RetryIdle
    /\ ResolveIdle
    /\ CollectIdle
    /\ ContextIdle
    /\ portal \in Portals
    /\ input \in UrlParts
    /\ canonicalUrl = <<>>
    /\ again = <<>>
    /\ other = NoUrl
    /\ otherCanonical = <<>>
    /\ relation = "none"
    /\ npc = "input"

\* canonical = self.normalize_url(url)
NormalizeInput ==
    /\ npc = "input"
    /\ canonicalUrl' = NormalizeUrl(portal, Raw(input))
    /\ npc' = "normalized"
    /\ UNCHANGED <<portal, input, again, other, otherCanonical, relation, restOfNorm>>

\* The canonical URL is normalized once more.
NormalizeAgain ==
    /\ npc = "normalized"
    /\ again' = NormalizeUrl(portal, canonicalUrl)
    /\ npc' = "twice"
    /\ UNCHANGED <<portal, input, canonicalUrl, other, otherCanonical, relation, restOfNorm>>

\* A URL differing from the input in letter case only is normalized.
NormalizeCaseVariant ==
    /\ npc = "twice"
    /\ \E v \in CaseVariants(input) :
          /\ other' = v
          /\ otherCanonical' = NormalizeUrl(portal, Raw(v))
    /\ relation' = "case"
    /\ npc' = "compared"
    /\ UNCHANGED <<portal, input, canonicalUrl, again, restOfNorm>>

\* The input without its volatile parameters is normalized.
NormalizeStrippedVariant ==
    /\ npc = "twice"
    /\ \E v \in StrippedVariants(input) :
          /\ other' = v
          /\ otherCanonical' = NormalizeUrl(portal, Raw(v))
    /\ relation' = "stripped"
    /\ npc' = "compared"
    /\ UNCHANGED <<portal, input, canonicalUrl, again, restOfNorm>>

\* A URL with the same name=value pairs in another order is normalized.
NormalizePermutedVariant ==
    /\ npc = "twice"
    /\ \E v \in PermutedVariants(input) :
          /\ other' = v
          /\ otherCanonical' = NormalizeUrl(portal, Raw(v))
    /\ relation' = "permuted"
    /\ npc' = "compared"
    /\ UNCHANGED <<portal, input, canonicalUrl, again, restOfNorm>>

NormNext ==
    \/ NormalizeInput
    \/ NormalizeAgain
    \/ NormalizeCaseVariant
    \/ NormalizeStrippedVariant
    \/ NormalizePermutedVariant

NormSpec == NormInit /\ [][NormNext]_vars

\* ---------------------------------------------------- discovery collector
\* The spiders with a discovery callback: parse_for_links of the two dummy
\* portals, parse_discovery of the wildlife portal.
CollectPortals == {"discover", "hybrid", "wildlife"}

\* href values of the links of a listing page.
Hrefs == 1..MaxLinks

\* The listings of a discovery unit: one to MaxUnitPages pages, the last one
\* without a next-page link.
Listings == UNION {[1..n -> SUBSET Hrefs] : n \in 1..MaxUnitPages}

\* discovered_urls.append({'url': canonical, 'metadata': metadata}); the
\* metadata is taken from the link and the page it is on.
Pair(href, pg) == [url |-> href, metadata |-> pg]

\* The pairs of the links of page pg, in document order.
RECURSIVE PairsOf(_, _)
PairsOf(hrefs, pg) ==
    IF hrefs = {} THEN <<>>
    ELSE LET h == CHOOSE x \in hrefs : \A y \in hrefs : x <= y
         IN  <<Pair(h, pg)>> \o PairsOf(hrefs \ {h}, pg)

\* What a POST to the link-store can end in: the links stored and a result
\* body returned, a 2xx without links_stored in its body, an error status, or
\* an exception of the client (connection error, timeout).
StoreResults == {"stored", "malformed", "error_status", "exception"}

\* The upload ends in the except branch of the store routine.  The wildlife
\* portal uses the base routine, which does not read the response body.
StoreFails(p, result) ==
    \/ result \in {"error_status", "exception"}
    \/ result = "malformed" /\ p # "wildlife"

\* except Exception as e: self.logger.error(...)
UploadFailureRaises == "raised"
UploadFailure == "logged"

\* The state of the callback after the store routine returned or raised.
AfterStore(p, result, next) ==
    IF StoreFails(p, result) /\ UploadFailure = "raised" THEN "raised" ELSE next

\* The store routine, called with a list of links: one POST, and a logged
\* error when it fails.
Store(links, next) ==
    \E result \in StoreResults :
        /\ uploads' = Append(uploads, [links |-> links, result |-> result])
        /\ storeErrors' = storeErrors + (IF StoreFails(cportal, result) THEN 1 ELSE 0)
        /\ cpc' = AfterStore(cportal, result, next)

\* "if discovered_urls:" / "if found_links:" before the store routine is
\* called, and "if not urls: return" in the base routine.
ShouldStoreAlways(links) == TRUE
ShouldStore(links) == links # <<>>

\* The page after this one is requested, or the unit is complete.
HasNextPage == listingPage < Len(unitPages)

\* A discovery unit starts: the first listing page is requested.
CollectInit ==
    /\ WorkerInit /\ runIdFilter = FALSE
    /\ RetryIdle
    /\ ResolveIdle
    /\ NormIdle
    /\ ContextIdle
    /\ cportal \in CollectPortals
    /\ unitPages \in Listings
    /\ listingPage = 1
    /\ cpc = "fetching"
    /\ discovered = <<>>
    /\ yielded = <<>>
    /\ uploads = <<>>
    /\ storeErrors = 0

\* parse_for_links(response) of the discover and hybrid portals, run to the
\* end by the engine: the links of this page are collected in the local list
\* discovered_urls and yielded as items; then the next page is followed, or, on the
\* last page, discovered_urls is stored if it is not empty.
ParseForLinks ==
    /\ cpc = "fetching"
    /\ cportal \in {"discover", "hybrid"}
    /\ LET discovered_urls == PairsOf(unitPages[listingPage], listingPage)
       IN  /\ discovered' = discovered \o discovered_urls
           /\ yielded' = yielded \o discovered_urls
           /\ IF HasNextPage
              THEN /\ listingPage' = listingPage + 1
                   /\ UNCHANGED <<cpc, uploads, storeErrors>>
              ELSE /\ UNCHANGED listingPage
                   /\ IF ShouldStore(discovered_urls)
                      THEN Store(discovered_urls, "complete")
                      ELSE /\ cpc' = "complete"
                           /\ UNCHANGED <<uploads, storeErrors>>
    /\ UNCHANGED <<cportal, unitPages, restOfCollect>>

\* parse_discovery(response) of the wildlife portal: the links of this page
\* are stored if there are any, then the next page is followed.
ParseDiscovery ==
    /\ cpc = "fetching"
    /\ cportal = "wildlife"
    /\ LET found_links == PairsOf(unitPages[listingPage], listingPage)
           next == IF HasNextPage THEN "fetching" ELSE "complete"
       IN  /\ discovered' = discovered \o found_links
           /\ IF ShouldStore(found_links)
              THEN Store(found_links, next)
              ELSE /\ cpc' = next
                   /\ UNCHANGED <<uploads, storeErrors>>
           /\ listingPage' = IF HasNextPage /\ cpc' = "fetching"
                             THEN listingPage + 1 ELSE listingPage
    /\ UNCHANGED <<cportal, unitPages, yielded, restOfCollect>>

\* The download of a listing page fails; the request has no errback, so the
\* unit ends here without reaching its last page.
ListingFetchFailure ==
    /\ cpc = "fetching"
    /\ cpc' = "failed"
    /\ UNCHANGED <<cportal, unitPages, listingPage, discovered, yielded, uploads,
                   storeErrors, restOfCollect>>

CollectNext ==
    \/ ParseForLinks
    \/ ParseDiscovery
    \/ ListingFetchFailure

CollectSpec == CollectInit /\ [][CollectNext]_vars

\* ------------------------------------------------------- error context
\* execute_task after a non-zero exit (worker.py, lines 253-265 of execute_task): the last
\* lines of the task's log file become the error context of the failure.
\* The source keeps the last 100 lines and the first 500 characters of their
\* text; the model keeps the last TailLines lines and the first ContextLimit
\* characters.
TailLines == 2
ContextLimit == 3
\* Longest log file, in lines, and longest line, in characters (its newline
\* included).
MaxLogLines == 4
MaxLineLen == 2

\* A log file is known by the lengths of its lines; the character at column
\* j of line i is written <<i, j>>.
LineOf(i, len) == [j \in 1..len |-> <<i, j>>]
LogOf(lens) == [i \in 1..Len(lens) |-> LineOf(i, lens[i])]
Logs == {LogOf(lens) : lens \in UNION {[1..n -> 1..MaxLineLen] : n \in 0..MaxLogLines}}

\* lines[-n:]
LastLinesAll(lines, n) == lines
LastLines(lines, n) == SubSeq(lines, Max(1, Len(lines) - n + 1), Len(lines))

\* ''.join(lines)
RECURSIVE Concat(_)
Concat(lines) == IF lines = <<>> THEN <<>> ELSE Head(lines) \o Concat(Tail(lines))

\* text[:n]
Prefix(text, n) == SubSeq(text, 1, Min(Len(text), n))

\* A process has exited with a non-zero code; its log file may be unreadable.
ContextInit ==
    /\ WorkerInit /\ runIdFilter = FALSE
    /\ RetryIdle
    /\ ResolveIdle
    /\ NormIdle
    /\ CollectIdle
    /\ logLines \in Logs
    /\ logReadable \in BOOLEAN
    /\ errorContext = <<>>
    /\ ctxOutcome = NoOutcome
    /\ ctxPc = "exited"

\* error_context = ""; try: lines = f.readlines();
\* error_context = ''.join(lines[-100:]); except Exception: pass -- and the
\* [:500] of the return statement.
ReadLogTail ==
    /\ ctxPc = "exited"
    /\ errorContext' = IF logReadable
                       THEN Prefix(Concat(LastLines(logLines, TailLines)), ContextLimit)
                       ELSE <<>>
    /\ ctxPc' = "read"
    /\ UNCHANGED <<logLines, logReadable, ctxOutcome, restOfContext>>

\* return False, "spider_error", f"Exit code: ...\n{error_context[:500]}"
ReturnSpiderError ==
    /\ ctxPc = "read"
    /\ ctxOutcome' = Failure("spider_error")
    /\ ctxPc' = "returned"
    /\ UNCHANGED <<logLines, logReadable, errorContext, restOfContext>>

ContextNext ==
    \/ ReadLogTail
    \/ ReturnSpiderError

ContextSpec == ContextInit /\ [][ContextNext]_vars

\* ------------------------------------------------------ worker: specification
Progress ==
    \/ IssueLease
    \/ ExitLoop
    \/ LeaseResponse
    \/ PollSleepDone
    \/ BackoffDone
    \/ Setup
    \/ PortalResponse
    \/ Spawn
    \/ ProcessExit
    \/ ExecTimeout
    \/ KillWaitDone
    \/ HbWake
    \/ HbResponse
    \/ HbTerminate
    \/ AwaitHbDone
    \/ ReportResponse

Next == Progress \/ Tick \/ Interrupt

Init == WorkerInit /\ RetryIdle /\ ResolveIdle /\ NormIdle /\ CollectIdle /\ ContextIdle

Spec == Init /\ [][Next]_vars

\* Every request returns (the client has a 60 s timeout), every sleep ends,
\* the process exits or is killed, and time advances.
LiveSpec ==
    /\ Init
    /\ [][Next]_vars
    /\ WF_vars(IssueLease) /\ WF_vars(ExitLoop) /\ WF_vars(LeaseResponse)
    /\ WF_vars(PollSleepDone) /\ WF_vars(BackoffDone) /\ WF_vars(Setup)
    /\ WF_vars(PortalResponse) /\ WF_vars(Spawn) /\ WF_vars(ExecTimeout)
    /\ WF_vars(KillWaitDone) /\ WF_vars(HbWake) /\ WF_vars(HbResponse)
    /\ WF_vars(HbTerminate) /\ WF_vars(AwaitHbDone) /\ WF_vars(ReportResponse)
    /\ SF_vars(Tick)

\* ------------------------------------------------- retry classification spec
RetryAlphabet == {"5", "0", "3", "T", "_"}

RECURSIVE SeqsUpTo(_)
SeqsUpTo(n) ==
    IF n = 0 THEN {<<>>}
    ELSE LET shorter == SeqsUpTo(n - 1)
         IN  shorter \cup {Append(s, c) : s \in shorter, c \in RetryAlphabet}

Code503 == <<"5","0","3">>
CodeHTTP503 == <<"H","T","T","P","_","5","0","3">>
CodeSpiderError == <<"s","p","i","d","e","r","_","e","r","r","o","r">>

RetryExamples ==
    { Code503, CodeHTTP503, CodeSpiderError,
      <<"T","I","M","E","O","U","T">>,
      <<"t","i","m","e","o","u","t">>,
      <<"R","e","a","d","T","i","m","e","o","u","t">>,
      <<"D","N","S","_","E","r","r","o","r">>,
      <<"e","r","r","_","4","2","9","_","x">>,
      <<"e","x","e","c","u","t","i","o","n","_","e","r","r","o","r">>,
      <<"t","i","m","e","_","o","u","t">>,
      <<"5","0","_","3">> }

RetryInputs == SeqsUpTo(MaxCodeLen) \cup RetryExamples

\* A shared-pool worker that has not started its loop, and one error code.
RetryInit ==
    /\ WorkerInit
    /\ ResolveIdle
    /\ NormIdle
    /\ CollectIdle
    /\ ContextIdle
    /\ runIdFilter = FALSE
    /\ errorCode \in RetryInputs
    /\ retryable = FALSE
    /\ retryPc = "input"

\* fail_task calls self._is_retryable_error(error_code or "").
Classify ==
    /\ retryPc = "input"
    /\ retryable' = IsRetryable(errorCode)
    /\ retryPc' = "classified"
    /\ UNCHANGED <<errorCode, restOfRetry>>

\* The next failure is classified.
NextCode ==
    /\ retryPc = "classified"
    /\ errorCode' \in RetryInputs
    /\ retryable' = FALSE
    /\ retryPc' = "input"
    /\ UNCHANGED restOfRetry

RetryNext == Classify \/ NextCode

RetrySpec == RetryInit /\ [][RetryNext]_vars

\* ------------------------------------------------------------------ claims
Decided == outcome # NoOutcome
OutcomeRequests == completeSent + failSent

\* C1: when the complete or fail request of a task is issued, the heartbeat
\* task has been cancelled and has terminated; once execute_task has
\* returned its outcome the heartbeat task is neither sleeping nor sending,
\* so no heartbeat request follows the decision.
C1_HeartbeatStoppedBeforeReport ==
    /\ (pc = "reporting" \/ OutcomeRequests > 0) => hb = "cancelled"
    /\ Decided => hb \notin HbAlive

\* C1 witness: a task whose heartbeat has sent requests is being reported,
\* the heartbeat task terminated.
C1_Witness ==
    pc = "reporting" /\ hbSent > 0 /\ hb = "cancelled" /\ OutcomeRequests = 1

\* C2: at the end of every iteration that leased a task exactly one outcome
\* request has been issued for it: complete if execution succeeded, fail
\* otherwise.  (Violated: an exception of the setup, or of the heartbeat
\* task, skips the report.)
C2_ExactlyOneOutcome ==
    (pc = "loop" /\ leased) =>
        /\ OutcomeRequests = 1
        /\ completeSent = 1 <=> outcome.success

C4_HeartbeatSuppressed ==
    (leased /\ task.numeric /\ elapsed < task.hbi) =>
        /\ hbSent = 0
        /\ (pc = "loop" /\ returncode = {0}) =>
               (completeSent = 1 /\ failSent = 0)

\* C4 witness: an iteration ended after exit code 0, one tick into a
\* two-tick heartbeat interval.
C4_Witness ==
    /\ pc = "loop" /\ leased /\ returncode = {0}
    /\ task.numeric /\ elapsed > 0 /\ elapsed < task.hbi
    /\ completeSent = 1 /\ hbSent = 0

Drained == runIdFilter /\ lastLease = "204"

\* C5: after a dedicated worker received 204 it issues no further lease
\* request, and its loop terminates.
C5_DrainOn204 ==
    /\ [][Drained => pc' # "leasing"]_vars
    /\ (Drained ~> pc = "stopped")

\* C5 witness: a dedicated worker has stopped after a 204, uninterrupted.
C5_Witness == Drained /\ pc = "stopped" /\ ~interrupted

\* C6: a worker without run_id_filter stops only when interrupted, and as
\* long as it is not interrupted a lease request always eventually follows.
C6_PollsForever ==
    /\ [](~runIdFilter => (pc = "stopped" => interrupted))
    /\ [](~runIdFilter => <>(pc = "leasing" \/ interrupted))

\* C6 witness: a shared-pool worker is leasing again after a 204.
C6_Witness ==
    ~runIdFilter /\ pc = "loop" /\ lastLease = "204" /\ slept = "poll" /\ running

\* C7 as claimed: every exception raised in an iteration is followed by a
\* sleep before the next iteration starts.
C7_SleepAfterEveryException ==
    (pc = "loop" /\ exc # "none") => slept # "none"

\* C7 as amended: no exception ends the loop (it stops only on an interrupt
\* or on a dedicated worker's 204).  An exception that reaches run's
\* handler is followed by the backoff sleep; an exception of the lease
\* request is absorbed by lease_task and followed by the poll sleep; an
\* exception of the outcome request is absorbed with no sleep.
C7_ExceptionsAbsorbed ==
    /\ pc = "stopped" => (interrupted \/ Drained)
    /\ pc = "backoff" => exc = "loop"
    /\ (pc = "loop" /\ exc = "loop") => slept = "backoff"
    /\ (pc = "loop" /\ exc = "lease") => slept = "poll"
    /\ (pc = "loop" /\ exc = "report") => slept = "none"

\* C7 witness: an iteration ended by an exception of execution, after the
\* backoff sleep, the worker still running.
C7_Witness ==
    pc = "loop" /\ exc = "loop" /\ slept = "backoff" /\ leased /\ running

\* C8: a heartbeat request that fails (another status than 200, or an
\* exception) leaves execute_task where it is and the heartbeat task
\* sleeping for one more interval; after a failure the sleeping heartbeat
\* task goes on to send another request unless it is cancelled first.
C8_HeartbeatFailureIgnored ==
    /\ [][(hbStatus = "pending" /\ hbStatus' \in {"other", "exception"}) =>
            /\ hb' = "sleeping"
            /\ hbTimer' = task.hbi
            /\ UNCHANGED <<pc, ex, outcome, returncode, timeLeft>>]_vars
    /\ ((hbFailed /\ hb = "sleeping") ~>
            (hb = "sending" \/ hb \in {"cancelling", "cancelled"}))

\* C8 witness: after a failed heartbeat the task still runs and a further
\* heartbeat request is in flight.
C8_Witness ==
    /\ hbFailed /\ hbStatus = "pending" /\ hb = "sending"
    /\ pc = "executing" /\ ex = "running"

\* C9: the classification is true exactly when the lower-cased code has one
\* of the nine transient markers as a substring; "503" and "HTTP_503" are
\* retryable, "spider_error" is not.
C9_RetryableIffMarker ==
    /\ retryPc = "classified" =>
           (retryable <=>
               \E c \in RetryableCodes :
                   \E i \in 1..Len(errorCode), j \in 1..Len(errorCode) :
                       SubSeq(LowerStr(errorCode), i, j) = c)
    /\ (retryPc = "classified" /\ errorCode \in {Code503, CodeHTTP503}) => retryable
    /\ (retryPc = "classified" /\ errorCode = CodeSpiderError) => ~retryable

\* C9 witness: an upper-case code that holds a marker after a prefix has
\* been classified as retryable.
C9_Witness ==
    retryPc = "classified" /\ errorCode = CodeHTTP503 /\ retryable

\* C10: on normal exit execute_task returns success exactly for exit code
\* 0, and spider_error for every other exit code.
C10_ExitCodeDecides ==
    \A rc \in returncode :
        /\ outcome.success <=> rc = 0
        /\ rc # 0 => outcome = Failure("spider_error")
        /\ rc = 0 => outcome = Success

\* C10 witness: a process killed by a signal (negative exit code) is being
\* reported with a fail request.
C10_Witness ==
    returncode = {-9} /\ pc = "reporting" /\ failSent = 1

\* C11: a timeout failure is returned only after process.kill() has been
\* called and the process has terminated; whenever execute_task has returned
\* an outcome, and whenever an outcome request has been issued, the process
\* is not alive.
C11_KillWaitThenTimeout ==
    /\ outcome = Failure("timeout") => (killSent /\ proc = "dead")
    /\ ex = "killing" => (killSent /\ ~Decided /\ OutcomeRequests = 0)
    /\ (Decided \/ OutcomeRequests > 0) => proc # "alive"

\* C11 witness: the fail request of a task that ran into the timeout is in
\* flight, the process killed and reaped.
C11_Witness ==
    /\ pc = "reporting" /\ outcome = Failure("timeout")
    /\ killSent /\ proc = "dead" /\ failSent = 1

\* C12: when the crawl process could not be started, execute_task returns
\* execution_error and the iteration ends with exactly one fail request and no
\* exception reaching run's handler.
C12_StartFailureReported ==
    (pc \in {"loop", "backoff"} /\ leased /\ outcome = Failure("execution_error"))
        => (failSent = 1 /\ completeSent = 0 /\ exc # "loop")

\* The units of the descriptors yielded so far are first, first + 1, ... in
\* this order, all of the given kind, and the whole range once the generator
\* has ended.
YieldsRange(kind, first, last) ==
    /\ rpc # "raised"
    /\ Len(descs) <= last - first + 1
    /\ \A i \in 1..Len(descs) : descs[i].kind = kind /\ descs[i].unit = first + i - 1
    /\ rpc = "done" => Len(descs) = last - first + 1

BothBounds(type) ==
    /\ payload.partition_type = {type}
    /\ payload.lo # {} /\ payload.hi # {}

\* C13: for page_range with start_page <= end_page the resolver yields exactly
\* one descriptor per page of [start_page, end_page], ascending, without
\* duplicates.
C13_PageRangeExact ==
    (BothBounds("page_range") /\ Get(payload.lo, 0) <= Get(payload.hi, 0))
        => YieldsRange("page_range", Get(payload.lo, 0), Get(payload.hi, 0))

\* C13 witness: a page range of several pages has been resolved completely.
C13_Witness ==
    /\ BothBounds("page_range") /\ Get(payload.lo, 0) < Get(payload.hi, 0)
    /\ rpc = "done"
    /\ Len(descs) = Get(payload.hi, 0) - Get(payload.lo, 0) + 1

\* C14: for year_range with start_year or end_year absent the resolver yields
\* no descriptor, never raises, and has logged one resolution error when it
\* ends.
C14_YearRangeMissingBound ==
    (payload.partition_type = {"year_range"} /\ (payload.lo = {} \/ payload.hi = {}))
        => /\ descs = <<>> /\ inflight = {}
           /\ rpc \in {"start", "done"}
           /\ rpc = "done" => rerrors = 1

\* C14 witness: a year_range with only one bound has been resolved.
C14_Witness ==
    /\ payload.partition_type = {"year_range"}
    /\ payload.lo # {} /\ payload.hi = {}
    /\ rpc = "done" /\ rerrors = 1 /\ descs = <<>>

\* C15: for year_range with both bounds the resolver yields one descriptor per
\* year from start_year to end_year, ascending; every descriptor carries its
\* year as session key, every request derived from the descriptor of year Y
\* carries session key Y, and requests of different years never share a key.
C15_YearRangeSessionKeys ==
    BothBounds("year_range") =>
        /\ IF Get(payload.lo, 0) <= Get(payload.hi, 0)
           THEN YieldsRange("year_range", Get(payload.lo, 0), Get(payload.hi, 0))
           ELSE descs = <<>> /\ rpc # "raised"
        /\ \A i \in 1..Len(descs) : descs[i].cookiejar = {descs[i].unit}
        /\ \A r \in inflight : r.cookiejar = {r.origin}
        /\ \A r1, r2 \in inflight :
              r1.origin # r2.origin => r1.cookiejar # r2.cookiejar

\* C15 witness: a pagination follow-up of one year and a request derived from
\* another year are in flight together.
C15_Witness ==
    /\ BothBounds("year_range") /\ Len(descs) >= 2
    /\ \E r1, r2 \in inflight :
          /\ r1.kind = "listing" /\ r1.page > 1
          /\ r1.cookiejar = {r1.origin}
          /\ r2.origin # r1.origin

UrlBatchDescriptors ==
    LET urls == Get(payload.urls, <<>>) IN
    /\ rpc # "raised"
    /\ Len(descs) <= Len(urls)
    /\ \A i \in 1..Len(descs) :
          /\ descs[i].kind = "url_batch" /\ descs[i].unit = i
          /\ descs[i].url = urls[i]
          /\ descs[i].callback = "parse_detail"
          /\ descs[i].errback = "errback_url"
    /\ rpc = "done" => Len(descs) = Len(urls)
    /\ \A f \in absorbed : f.by = "errback_url"

\* C16: for url_batch the resolver yields one detail-fetch descriptor per
\* element of urls, in list order, each with errback_url as its error handler;
\* a fetch failure is taken by that handler, removes only the failed request
\* and leaves the generator and the other requests as they are.
C16_UrlBatchIsolated ==
    /\ [](payload.partition_type = {"url_batch"} => UrlBatchDescriptors)
    /\ [][(payload.partition_type = {"url_batch"} /\ absorbed' # absorbed)
            => /\ inflight' \subseteq inflight
               /\ Cardinality(inflight') = Cardinality(inflight) - 1
               /\ UNCHANGED <<rpc, cursor, limit, descs>>]_vars

\* C16 witness: the fetch of the first of several URLs failed, and the whole
\* batch has been produced and worked off all the same.
C16_Witness ==
    /\ payload.partition_type = {"url_batch"}
    /\ rpc = "done" /\ Len(descs) = MaxUrls /\ inflight = {}
    /\ absorbed = {[kind |-> "url_batch", unit |-> 1, by |-> "errback_url"]}

UnknownType == \A t \in payload.partition_type : t \notin KnownTypes

\* C17: a payload whose partition_type is absent or not a known type never
\* lets the resolver end normally with an empty descriptor sequence, the way
\* a legitimately empty partition does; the resolution fails.
C17_UnknownTypeFails ==
    (rpc # "idle" /\ UnknownType) => rpc \in {"start", "raised"}

\* C18: normalize_url is idempotent in every portal: normalizing a canonical
\* URL gives it back, also when it keeps a query parameter.
C18_Idempotent ==
    npc \in {"twice", "compared"} => again = canonicalUrl

\* C19: in every portal a URL and the same URL without its session and
\* tracking parameters (host in either case) have the same canonical URL.
C19_VolatileIgnored ==
    (npc = "compared" /\ relation = "stripped") => otherCanonical = canonicalUrl

\* C20: in every portal two URLs that differ only in the case of the host,
\* the path, a parameter name or a parameter value have the same canonical
\* URL.
C20_CaseInsensitive ==
    (npc = "compared" /\ relation = "case") => otherCanonical = canonicalUrl

\* C21: in every portal two URLs whose query strings hold the same
\* name=value pairs in a different order, several values of one name
\* included, have the same canonical URL.
C21_OrderInsensitive ==
    (npc = "compared" /\ relation = "permuted") => otherCanonical = canonicalUrl

\* C21 for the pairs it holds for: a reordering that keeps the values of
\* every name in their order leaves the canonical URL unchanged.
C21_DistinctNamesOrderInsensitive ==
    (/\ npc = "compared" /\ relation = "permuted"
     /\ \A i, j \in 1..Len(input.params) :
           i # j => input.params[i][1] # input.params[j][1])
        => otherCanonical = canonicalUrl

\* Every upload sent so far was stored.
UploadsSucceeded == \A k \in 1..Len(uploads) : uploads[k].result = "stored"

\* Batch k holds every pair discovered in the unit.
HoldsAllDiscovered(k) ==
    \A i \in 1..Len(discovered) :
        \E j \in 1..Len(uploads[k].links) : uploads[k].links[j] = discovered[i]

\* C22: when a discovery unit is complete, links were found in it and every
\* upload succeeded, one flushed batch holds every (canonical_url, metadata)
\* pair found on any page of the unit.
C22_FlushedBatchComplete ==
    (cpc = "complete" /\ discovered # <<>> /\ UploadsSucceeded)
        => \E k \in 1..Len(uploads) : HoldsAllDiscovered(k)

\* C23: whatever the result of an upload, the callback that sent it goes on
\* exactly as after a stored one (next page or unit complete), and a failed
\* upload is logged.
C23_UploadFailureAbsorbed ==
    [][Len(uploads') > Len(uploads)
        => /\ cpc' = IF cportal = "wildlife" /\ HasNextPage
                     THEN "fetching" ELSE "complete"
           /\ storeErrors' = storeErrors +
                (IF StoreFails(cportal, uploads'[Len(uploads')].result) THEN 1 ELSE 0)]_vars

\* The one upload of a unit failed, with an exception or an error status, and
\* the unit is complete.
C23_Witness ==
    /\ cpc = "complete"
    /\ Len(uploads) = 1
    /\ uploads[1].result \in {"exception", "error_status"}
    /\ storeErrors = 1

\* C24: a dedicated worker that has stopped without being interrupted has
\* received 204 on the lease request of its last iteration, in which no task
\* was leased; a failed lease request leaves self.running set and is
\* followed by the poll sleep and then by the next lease request; the
\* worker never clears self.running while a task is leased.
C24_DrainOnlyOn204WhileIdle ==
    /\ [](runIdFilter =>
            /\ (~running /\ ~interrupted) => (lastLease = "204" /\ ~leased)
            /\ (pc = "stopped" /\ ~interrupted) => (lastLease = "204" /\ ~leased)
            /\ (lastLease = "error" /\ ~interrupted) =>
                  (running /\ pc \in {"pollSleep", "loop"})
            /\ (lastLease = "error" /\ pc = "loop") => slept = "poll")
    /\ [][(runIdFilter /\ lastLease = "error" /\ pc = "loop") => pc' = "leasing"]_vars

\* C24 witness: a dedicated worker is about to lease again after a failed
\* lease request and the poll sleep.
C24_Witness ==
    runIdFilter /\ lastLease = "error" /\ pc = "loop" /\ slept = "poll" /\ running

\* C25: a dedicated worker that received 204 does not take the poll sleep:
\* it is never in the sleep after the 204 and reaches the end of its loop
\* without having slept.
C25_DrainWithoutPollSleep ==
    Drained => (pc # "pollSleep" /\ slept # "poll")

\* A heartbeat task that has not terminated.
HbLive == hb \in HbAlive \cup {"cancelling"}

\* C26: a lease request is issued only from the top of the loop, once per
\* iteration, and at that point, as during the report and the backoff sleep
\* before it, the process of the previous task has terminated and its
\* heartbeat task has terminated, whether the iteration ended normally or
\* by an exception.
C26_OneTaskAtATime ==
    /\ [](pc \in {"loop", "reporting", "backoff"} => (proc # "alive" /\ ~HbLive))
    /\ [][pc' = "leasing" => (pc = "loop" /\ proc # "alive" /\ ~HbLive)]_vars

\* C26 witness: the worker is about to lease again after an iteration that
\* ran a process and ended by an exception.
C26_Witness ==
    pc = "loop" /\ running /\ leased /\ exc = "loop" /\ proc = "dead" /\ slept = "backoff"

\* C27: a heartbeat task that has not terminated exists only while the
\* worker is inside the execution of a leased task, and it posts to that
\* task's id; a heartbeat request is in flight only while execute_task is
\* running, and carries the id of the task being executed; there is no live
\* heartbeat task when the worker is at the top of the loop, leasing,
\* sleeping, reporting or stopped, so a new one is created only when none
\* is left.
C27_HeartbeatScopedToTask ==
    /\ HbLive => (pc \in {"executing", "awaitHb"} /\ leased /\ hbTaskId = task.task_id)
    /\ hb = "sending" =>
          (pc = "executing" /\ hbStatus = "pending" /\ hbTaskId = task.task_id)
    /\ pc \in {"loop", "leasing", "pollSleep", "backoff", "reporting", "stopped"} => ~HbLive

\* C27 witness: a heartbeat request for the second task id is in flight
\* while that task's process runs.
C27_Witness ==
    /\ hb = "sending" /\ pc = "executing" /\ ex = "running"
    /\ task.task_id = MaxTaskId /\ hbTaskId = MaxTaskId

\* execute_task is running: it has passed its setup and has not returned.
ExecutorRunning == pc = "executing" /\ ex \in {"portal", "spawn", "running", "killing"}

\* C28: while execute_task is running the heartbeat task is sleeping or
\* sending, whatever heartbeat_interval the lease response carried.
C28_HeartbeatAliveWhileExecuting ==
    ExecutorRunning => hb \in {"sleeping", "sending"}

\* C29: at most one complete and at most one fail request is sent for a
\* leased task; a failed outcome request is followed directly by the top of
\* the loop, with no sleep and no second outcome request.
C29_ReportFailureAbsorbed ==
    /\ completeSent <= 1 /\ failSent <= 1
    /\ exc = "report" =>
          (pc = "loop" /\ slept = "none" /\ OutcomeRequests = 1 /\ running)

\* C29 witness: the fail request of a task failed and the worker is at the
\* top of the loop.
C29_Witness ==
    pc = "loop" /\ exc = "report" /\ failSent = 1 /\ slept = "none"

\* C30: the retryable flag of a fail request is true exactly when
\* execute_task returned the timeout failure; spider_error and
\* execution_error are sent with retryable false.
C30_RetryableOnlyOnTimeout ==
    /\ failSent > 0 =>
          failRetryable = {outcome = Failure("timeout")}
    /\ (failSent > 0 /\ outcome.error_code \in {"spider_error", "execution_error"}) =>
          failRetryable = {FALSE}

\* C30 witness: a fail request with retryable true is in flight after the
\* hard timeout, the process killed.
C30_Witness ==
    /\ pc = "reporting" /\ failSent = 1 /\ failRetryable = {TRUE}
    /\ outcome = Failure("timeout") /\ killSent

\* C31: under fair scheduling the execution of a leased task always
\* settles (execute_task returns or raises, or the worker is interrupted),
\* and a worker that holds a task always issues another lease request or
\* stops.
C31_ExecutionSettles ==
    /\ (pc = "executing" ~> (ex \in {"done", "raised"} \/ pc = "stopped"))
    /\ (pc \in {"executing", "awaitHb", "reporting", "backoff"}
            ~> (pc = "leasing" \/ pc = "stopped"))

\* C31 witness: the worker is back at the top of the loop after a task that
\* ran into the hard timeout, its heartbeat task terminated.
C31_Witness ==
    /\ pc = "loop" /\ running /\ leased /\ outcome = Failure("timeout")
    /\ hb = "cancelled" /\ proc = "dead" /\ failSent = 1

\* C32: after a failed fetch of the portal record, and after a record
\* without a spider_name key, execute_task goes on to start the crawl with
\* portal_id as the spider name, no outcome decided; a task whose portal
\* fetch failed can still succeed.
C32_PortalFallback ==
    /\ [](portalStatus \in {"error", "noname"} => spider = "portal_id")
    /\ [](portalStatus = "name" => spider = "spider_name")
    /\ [][(ex = "portal" /\ portalStatus' \in {"error", "noname"}) =>
            (pc' = "executing" /\ ex' = "spawn" /\ outcome' = NoOutcome)]_vars
    /\ [][(proc' = "alive" /\ proc # "alive") => spider \in {"spider_name", "portal_id"}]_vars

\* C32 witness: a task whose portal fetch failed ran under portal_id, exited
\* with code 0 and is being reported complete.
C32_Witness ==
    /\ portalStatus = "error" /\ spider = "portal_id"
    /\ pc = "reporting" /\ returncode = {0} /\ completeSent = 1

\* C33: a section payload with a section_url resolves to exactly one
\* descriptor, for that URL and carrying the payload's section_id; one
\* without a section_url resolves to no descriptor and one recorded error.
C33_SectionResolution ==
    payload.partition_type = {"section"} =>
        /\ rpc # "raised"
        /\ payload.section_url # {} =>
              /\ Len(descs) <= 1
              /\ rpc = "done" => Len(descs) = 1
              /\ \A i \in 1..Len(descs) :
                    /\ descs[i].kind = "section"
                    /\ descs[i].url = Get(payload.section_url, "")
                    /\ descs[i].unit = Get(payload.section_id, 0)
        /\ payload.section_url = {} =>
              /\ descs = <<>>
              /\ rpc = "done" => rerrors = 1

\* C34: no upload request carries an empty link list, and a discovery unit
\* in which no link was found sends no upload request.
C34_NoEmptyUpload ==
    /\ \A k \in 1..Len(uploads) : uploads[k].links # <<>>
    /\ discovered = <<>> => uploads = <<>>

\* C34 witness: a unit of MaxUnitPages pages without any link is complete
\* and nothing was uploaded.
C34_Witness ==
    /\ cpc = "complete" /\ Len(unitPages) = MaxUnitPages /\ listingPage = MaxUnitPages
    /\ discovered = <<>> /\ uploads = <<>>

\* C35: for id_range with both bounds and start_id <= end_id the resolver
\* yields exactly one descriptor per id of [start_id, end_id], ascending,
\* without duplicates, each for the detail callback.
C35_IdRangeExact ==
    (BothBounds("id_range") /\ Get(payload.lo, 0) <= Get(payload.hi, 0))
        => /\ YieldsRange("id_range", Get(payload.lo, 0), Get(payload.hi, 0))
           /\ \A i \in 1..Len(descs) : descs[i].callback = "parse_detail"

\* C35 witness: an id range of several ids has been resolved completely.
C35_Witness ==
    /\ BothBounds("id_range") /\ Get(payload.lo, 0) < Get(payload.hi, 0)
    /\ rpc = "done"
    /\ Len(descs) = Get(payload.hi, 0) - Get(payload.lo, 0) + 1

\* The bounds of a page_range payload, an absent one taken as 1.
FirstPage == Get(payload.lo, 1)
LastPage == Get(payload.hi, 1)

\* C36: a page_range resolves to max(0, end_page - start_page + 1)
\* descriptors, the pages from start_page on, an absent bound counting as 1;
\* an inverted range resolves to none; no error is logged and nothing is
\* raised.
C36_PageRangeCount ==
    payload.partition_type = {"page_range"} =>
        /\ rpc # "raised" /\ rerrors = 0
        /\ \A i \in 1..Len(descs) :
              descs[i].kind = "page_range" /\ descs[i].unit = FirstPage + i - 1
        /\ Len(descs) <= Max(0, LastPage - FirstPage + 1)
        /\ rpc = "done" => Len(descs) = Max(0, LastPage - FirstPage + 1)
        /\ (rpc = "done" /\ FirstPage > LastPage) => descs = <<>>

\* C36 witness: a page_range without start_page has been resolved to the
\* pages 1 .. end_page.
C36_Witness ==
    /\ payload.partition_type = {"page_range"}
    /\ payload.lo = {} /\ payload.hi = {MaxUnit}
    /\ rpc = "done" /\ Len(descs) = MaxUnit /\ descs[1].unit = 1

\* C36, second case reached: an inverted page_range (start_page above the
\* default end_page) has been resolved to nothing.
C36_InvertedResolved ==
    /\ payload.partition_type = {"page_range"}
    /\ payload.lo = {MaxUnit} /\ payload.hi = {}
    /\ rpc = "done" /\ descs = <<>> /\ rerrors = 0

\* C37: the error context of a non-zero exit has at most ContextLimit
\* characters, every one of them from the last TailLines lines of the log;
\* when the log cannot be read the context is empty; in either case the
\* failure returned is spider_error.
C37_ErrorContextBounded ==
    ctxPc \in {"read", "returned"} =>
        /\ Len(errorContext) <= ContextLimit
        /\ \A k \in 1..Len(errorContext) :
              /\ errorContext[k][1] > Len(logLines) - TailLines
              /\ errorContext[k][1] \in 1..Len(logLines)
        /\ ~logReadable => errorContext = <<>>
        /\ ctxPc = "returned" => ctxOutcome = Failure("spider_error")

\* C37 witness: a log longer than the kept tail, whose tail is longer than
\* the limit, has been cut to the limit and the failure returned.
C37_Witness ==
    /\ ctxPc = "returned" /\ logReadable
    /\ Len(logLines) > TailLines
    /\ Len(Concat(LastLines(logLines, TailLines))) > ContextLimit
    /\ Len(errorContext) = ContextLimit

\* C37, second case reached: the log could not be read and the failure was
\* returned with an empty context.
C37_UnreadableReturned ==
    /\ ctxPc = "returned" /\ ~logReadable /\ logLines # <<>>
    /\ errorContext = <<>> /\ ctxOutcome = Failure("spider_error")

=============================================================================
